---- MODULE Spec2Model ----
(***************************************************************************)
(* A model of the QOI decoder of src/main.cpp: main, Image,                *)
(* qoi_pix_hash and do_decode_image.                                       *)
(*                                                                         *)
(* The file is the 14-byte header (magic, width, height; channels and      *)
(* colorspace are read and never used) followed by the chunk stream.      *)
(* One action is one iteration of the decoder's inner loop.                *)
(***************************************************************************)
EXTENDS Integers, Sequences, FiniteSets

VARIABLES
  magic,       \* header.magic, the 4 bytes read at main.cpp:169
  width,       \* header.width  (after swap_bytes)
  height,      \* header.height (after swap_bytes)
  stream,      \* the bytes of the file after the header
  pos,         \* bytes of `stream` consumed so far by in.read
  fail,        \* the failbit of `in`: set by a read at end of file
  pc,          \* "main" | "decode" | "output" | "returned" | "bad_magic" | "exit"
  decoded,     \* Image::a, the pixel buffer (a sequence; index k is a[k-1])
  i,           \* row loop variable of do_decode_image
  j,           \* column loop variable of do_decode_image
  memory,      \* Pixel memory[64]
  last_pix,    \* Pixel last_pix
  run_length,  \* uint32_t run_length
  out,         \* what main wrote to std::cout
  last_starting_byte, \* the value of the local starting_byte at the last
                      \* dispatch, -1 before the first
  last_second_byte,   \* the same for the local second_byte of the LUMA branch
  uninit,      \* reads of an indeterminate byte so far
  hist,        \* history: one record per grid write, in order
  arg,         \* input of the function under test (function specifications)
  ret          \* its result

vars == <<magic, width, height, stream, pos, fail, pc, decoded, i, j,
          memory, last_pix, run_length, out, last_starting_byte,
          last_second_byte, uninit, hist, arg, ret>>

decoderVars == <<magic, width, height, stream, pos, fail, pc, decoded, i, j,
                 memory, last_pix, run_length, out, last_starting_byte,
                 last_second_byte, uninit, hist>>

----------------------------------------------------------------------------
(* Bounds of the model. *)

\* Chunks concatenated to build an input stream.
MaxChunks == 2
\* Small grids: width in 1..MaxWidth, height in 1..MaxHeight.
MaxWidth == 2
MaxHeight == 2
\* One larger grid, WideWidth x WideHeight, that holds a maximal run.
WideWidth == 9
WideHeight == 7
\* Columns of the one-row grids of the specification of two runs.
MaxWidthTwice == 2

----------------------------------------------------------------------------
(* Fixed-width arithmetic. *)

U8(x) == x % 256

\* struct Pixel
Pixel(r, g, b, a) == [r |-> r, g |-> g, b |-> b, a |-> a]

\* A buffer element that new Pixel[n] left uninitialised.
Unset == [r |-> -1, g |-> -1, b |-> -1, a |-> -1]

----------------------------------------------------------------------------
(* Image (main.cpp:28-54). *)

\* new Pixel[width * height]. The product is a uint32_t; the grids of this
\* model are far too small for it to wrap.
Image_new(w, h) == [k \in 1..(w * h) |-> Unset]

\* row * this->width + col, a uint32_t that does not wrap here either.
Image_index(w, row, col) == row * w + col

Image_get(a, w, row, col) == a[Image_index(w, row, col) + 1]

Image_set(a, w, row, col, val) == [a EXCEPT ![Image_index(w, row, col) + 1] = val]

----------------------------------------------------------------------------
(* qoi_pix_hash (main.cpp:56-58): the channels are promoted to int. *)

\* Mutant: the alpha channel left out of the hash.
qoi_pix_hash_no_alpha(p) == (p.r * 3 + p.g * 5 + p.b * 7) % 64

qoi_pix_hash(p) == (p.r * 3 + p.g * 5 + p.b * 7 + p.a * 11) % 64

----------------------------------------------------------------------------
(* The locals of do_decode_image as it initialises them (main.cpp:62-68). *)

ZeroMemory == [k \in 0..63 |-> Pixel(0, 0, 0, 0)]

InitialPixel == Pixel(0, 0, 0, 255)

\* memory[qoi_pix_hash(res)] = res
Record(mem, res) == [mem EXCEPT ![qoi_pix_hash(res)] = res]

----------------------------------------------------------------------------
(* The if-chain of main.cpp:83-140 that classifies the starting byte. *)

\* Mutant: the two-bit prefixes tested first, so 0xFE and 0xFF are runs.
TagOp_prefix_first(starting_byte) ==
  IF (starting_byte \div 64) % 4 = 0 THEN "INDEX"
  ELSE IF (starting_byte \div 64) % 4 = 1 THEN "DIFF"
  ELSE IF (starting_byte \div 64) % 4 = 2 THEN "LUMA"
  ELSE IF (starting_byte \div 64) % 4 = 3 THEN "RUN"
  ELSE IF starting_byte = 254 THEN "RGB"
  ELSE IF starting_byte = 255 THEN "RGBA"
  ELSE "UNKNOWN"

TagOp(starting_byte) ==
  IF starting_byte = 254 THEN "RGB"
  ELSE IF starting_byte = 255 THEN "RGBA"
  ELSE IF (starting_byte \div 64) % 4 = 0 THEN "INDEX"
  ELSE IF (starting_byte \div 64) % 4 = 1 THEN "DIFF"
  ELSE IF (starting_byte \div 64) % 4 = 2 THEN "LUMA"
  ELSE IF (starting_byte \div 64) % 4 = 3 THEN "RUN"
  ELSE "UNKNOWN"

\* Mutant: the LUMA branch reads two bytes after the starting byte.
OperandCount_luma_two(op) ==
  CASE op = "RGB" -> 3
    [] op = "RGBA" -> 4
    [] op = "LUMA" -> 2
    [] OTHER -> 0

\* Bytes each branch reads after the starting byte.
OperandCount(op) ==
  CASE op = "RGB" -> 3
    [] op = "RGBA" -> 4
    [] op = "LUMA" -> 1
    [] OTHER -> 0

----------------------------------------------------------------------------
(* The six branches. Each yields the pixel res, the memory and run_length *)
(* it leaves.                                                              *)

\* Mutant: res.a = last_pix.a left out, so alpha stays the 255 res starts with.
QOI_OP_RGB_alpha_255(last, mem, r, g, b) ==
  LET res == Pixel(r, g, b, 255)
  IN  [res |-> res, memory |-> Record(mem, res), run_length |-> 0]

QOI_OP_RGB(last, mem, r, g, b) ==
  LET res == Pixel(r, g, b, last.a)
  IN  [res |-> res, memory |-> Record(mem, res), run_length |-> 0]

QOI_OP_RGBA(mem, r, g, b, a) ==
  LET res == Pixel(r, g, b, a)
  IN  [res |-> res, memory |-> Record(mem, res), run_length |-> 0]

\* Mutant: the indexed pixel is recorded again.
QOI_OP_INDEX_recorded(mem, starting_byte) ==
  LET index == starting_byte % 64
  IN  [res |-> mem[index], memory |-> Record(mem, mem[index]), run_length |-> 0]

QOI_OP_INDEX(mem, starting_byte) ==
  LET index == starting_byte % 64
  IN  [res |-> mem[index], memory |-> mem, run_length |-> 0]

Clamp(x) == IF x < 0 THEN 0 ELSE IF x > 255 THEN 255 ELSE x

\* Mutant: the channels saturate instead of wrapping.
QOI_OP_DIFF_clamped(last, mem, starting_byte) ==
  LET res == Pixel(Clamp(last.r + ((starting_byte \div 16) % 4) - 2),
                   Clamp(last.g + ((starting_byte \div 4) % 4) - 2),
                   Clamp(last.b + (starting_byte % 4) - 2),
                   last.a)
  IN  [res |-> res, memory |-> Record(mem, res), run_length |-> 0]

\* Mutant: the pixel is not recorded.
QOI_OP_DIFF_unrecorded(last, mem, starting_byte) ==
  LET res == Pixel(U8(last.r + ((starting_byte \div 16) % 4) - 2),
                   U8(last.g + ((starting_byte \div 4) % 4) - 2),
                   U8(last.b + (starting_byte % 4) - 2),
                   last.a)
  IN  [res |-> res, memory |-> mem, run_length |-> 0]

\* int arithmetic, converted to uint8_t by the assignment.
QOI_OP_DIFF(last, mem, starting_byte) ==
  LET res == Pixel(U8(last.r + ((starting_byte \div 16) % 4) - 2),
                   U8(last.g + ((starting_byte \div 4) % 4) - 2),
                   U8(last.b + (starting_byte % 4) - 2),
                   last.a)
  IN  [res |-> res, memory |-> Record(mem, res), run_length |-> 0]

\* Mutant: dg is not added to the red and blue differences.
QOI_OP_LUMA_no_dg(last, mem, starting_byte, second_byte) ==
  LET dg == U8((starting_byte % 64) - 32)
      dr_minus_dg == U8(((second_byte \div 16) % 16) - 8)
      db_minus_dg == U8((second_byte % 16) - 8)
      res == Pixel(U8(last.r + dr_minus_dg),
                   U8(last.g + dg),
                   U8(last.b + db_minus_dg),
                   last.a)
  IN  [res |-> res, memory |-> Record(mem, res), run_length |-> 0]

\* dg, dr_minus_dg and db_minus_dg are uint8_t: each is reduced modulo 256
\* before the sums, which are reduced again by the assignments to res.
QOI_OP_LUMA(last, mem, starting_byte, second_byte) ==
  LET dg == U8((starting_byte % 64) - 32)
      dr_minus_dg == U8(((second_byte \div 16) % 16) - 8)
      db_minus_dg == U8((second_byte % 16) - 8)
      res == Pixel(U8(last.r + dr_minus_dg + dg),
                   U8(last.g + dg),
                   U8(last.b + db_minus_dg + dg),
                   last.a)
  IN  [res |-> res, memory |-> Record(mem, res), run_length |-> 0]

\* Mutant: the bias of the run length left out.
RunCount_unbiased(starting_byte) == starting_byte % 64

\* run_length = (starting_byte & 0b11'1111) + 1, then run_length--: at least
\* 1 before the decrement, so the uint32_t does not wrap.
RunCount(starting_byte) == (starting_byte % 64) + 1

\* Mutant: run_length-- left out of the RUN branch.
QOI_OP_RUN_no_decrement(last, mem, starting_byte) ==
  [res |-> last, memory |-> mem, run_length |-> RunCount(starting_byte)]

QOI_OP_RUN(last, mem, starting_byte) ==
  [res |-> last, memory |-> mem, run_length |-> RunCount(starting_byte) - 1]

----------------------------------------------------------------------------
(* std::istream::read of one byte at a time. At end of file a read sets    *)
(* the failbit and stores nothing; every later read does the same.         *)

Min(a, b) == IF a < b THEN a ELSE b

\* n consecutive one-byte reads: the bytes stored, the new offset and failbit.
ReadN(s, p, f, n) ==
  LET k == IF f THEN 0 ELSE Min(n, Len(s) - p)
  IN  [vals |-> SubSeq(s, p + 1, p + k), pos |-> p + k, fail |-> f \/ k < n]

\* The k-th operand: the byte read, or what the target held before the read.
Field(vals, k, before) == IF k <= Len(vals) THEN vals[k] ELSE before

\* Dispatch on the starting byte. res starts as {0, 0, 0, 255} (main.cpp:80),
\* so a channel whose read failed keeps that value.
Dispatch(starting_byte, v, second_byte, last, mem) ==
  CASE TagOp(starting_byte) = "RGB" ->
         QOI_OP_RGB(last, mem, Field(v, 1, 0), Field(v, 2, 0), Field(v, 3, 0))
    [] TagOp(starting_byte) = "RGBA" ->
         QOI_OP_RGBA(mem, Field(v, 1, 0), Field(v, 2, 0), Field(v, 3, 0),
                     Field(v, 4, 255))
    [] TagOp(starting_byte) = "INDEX" -> QOI_OP_INDEX(mem, starting_byte)
    [] TagOp(starting_byte) = "DIFF" -> QOI_OP_DIFF(last, mem, starting_byte)
    [] TagOp(starting_byte) = "LUMA" ->
         QOI_OP_LUMA(last, mem, starting_byte, second_byte)
    [] TagOp(starting_byte) = "RUN" -> QOI_OP_RUN(last, mem, starting_byte)
    [] OTHER -> [res |-> InitialPixel, memory |-> mem, run_length |-> 0]

\* Mutant: the inner loop runs one column too far (j <= h.width).
NextCol_one_more(w, row, col) == IF col + 1 <= w THEN col + 1 ELSE 0

\* The loop variables after the inner loop's j++ (and the outer i++).
NextRow(w, row, col) == IF col + 1 < w THEN row ELSE row + 1

NextCol(w, row, col) == IF col + 1 < w THEN col + 1 ELSE 0

----------------------------------------------------------------------------
(* Inputs. *)

\* header.magic: the right one and a wrong one.
Magics == {"qoif", "qoig"}

\* Chunks the input streams are built from: RGB, two RGBA whose pixels both
\* hash to slot 0, INDEX 0 and 4, DIFF with all fields 0 and all fields 3,
\* LUMA, and RUN with fields 0, 1 and 61.
Chunks ==
  { <<254, 1, 2, 3>>, <<255, 64, 0, 0, 0>>, <<255, 0, 0, 0, 64>>,
    <<0>>, <<4>>, <<64>>, <<127>>, <<128, 15>>, <<192>>, <<193>>, <<253>> }

\* What a local with no initialiser holds when the read into it stored
\* nothing (main.cpp:77-78, 113-114): an indeterminate value, any byte.
\* Builds leave there the byte of the iteration before, what the stack
\* held, 0 or a fill pattern; the model commits to none of them.
Indeterminate == 0..255

RECURSIVE Flatten(_)
Flatten(cs) == IF cs = <<>> THEN <<>> ELSE Head(cs) \o Flatten(Tail(cs))

ChunkSeqs == UNION {[1..n -> Chunks] : n \in 0..MaxChunks}

\* Every prefix of every concatenation of at most MaxChunks chunks: whole
\* streams and streams cut anywhere, inside a chunk too.
Streams ==
  UNION {{SubSeq(Flatten(cs), 1, n) : n \in 0..Len(Flatten(cs))} : cs \in ChunkSeqs}

Dims ==
  ((1..MaxWidth) \X (1..MaxHeight)) \cup {<<WideWidth, WideHeight>>}

\* The grid positions whose starting byte the stream s holds: one for each
\* chunk, cut or whole, and field + 1 for a RUN chunk.
RECURSIVE Filled(_)
Filled(s) ==
  IF s = <<>> THEN 0
  ELSE (IF TagOp(s[1]) = "RUN" THEN RunCount(s[1]) ELSE 1)
         + (IF 1 + OperandCount(TagOp(s[1])) >= Len(s) THEN 0
            ELSE Filled(SubSeq(s, 2 + OperandCount(TagOp(s[1])), Len(s))))

\* The streams decoded into a grid of w by h: those that hold the starting
\* byte of every position, whatever they hold of the bytes after it, and,
\* for the grids of one row, the empty stream and the single whole chunks
\* that leave the last position without its starting byte.
StreamsFor(w, h) ==
  {s \in Streams :
     \/ Filled(s) >= w * h
     \/ (h = 1 /\ Filled(s) + 1 = w /\ s \in Chunks \cup {<<>>})}

\* The streams of the specification of two runs: every chunk, whole or cut
\* anywhere after its first byte.
TwiceStreams == UNION {{SubSeq(c, 1, n) : n \in 1..Len(c)} : c \in Chunks}

----------------------------------------------------------------------------
(* The program. *)

Idle == arg = <<>> /\ ret = <<>>

Init ==
  /\ magic \in Magics
  /\ \E d \in Dims :
       /\ width = d[1]
       /\ height = d[2]
       /\ stream \in StreamsFor(d[1], d[2])
  /\ pos = 0
  /\ fail = FALSE
  /\ pc = "main"
  /\ decoded = <<>>
  /\ i = 0
  /\ j = 0
  /\ memory = <<>>
  /\ last_pix = Unset
  /\ run_length = 0
  /\ out = <<>>
  /\ last_starting_byte = -1
  /\ last_second_byte = -1
  /\ uninit = 0
  /\ hist = <<>>
  /\ Idle

\* Mutant: the image is allocated and decoded whatever the magic is.
Main_no_magic_check ==
  /\ pc = "main"
  /\ decoded' = Image_new(width, height)
  /\ memory' = ZeroMemory
  /\ last_pix' = InitialPixel
  /\ run_length' = 0
  /\ i' = 0
  /\ j' = 0
  /\ pc' = IF height = 0 \/ width = 0 THEN "output" ELSE "decode"
  /\ UNCHANGED <<magic, width, height, stream, pos, fail, out,
                 last_starting_byte, last_second_byte, uninit, hist, arg, ret>>

\* main.cpp:177-179 and 191-193, and the entry of do_decode_image
\* (main.cpp:62-68): the magic is compared, the image is allocated and the
\* decoder's locals are initialised.
Main ==
  /\ pc = "main"
  /\ IF magic = "qoif"
     THEN /\ decoded' = Image_new(width, height)
          /\ memory' = ZeroMemory
          /\ last_pix' = InitialPixel
          /\ run_length' = 0
          /\ i' = 0
          /\ j' = 0
          /\ pc' = IF height = 0 \/ width = 0 THEN "output" ELSE "decode"
     ELSE /\ pc' = "bad_magic"
          /\ UNCHANGED <<decoded, memory, last_pix, run_length, i, j>>
  /\ UNCHANGED <<magic, width, height, stream, pos, fail, out,
                 last_starting_byte, last_second_byte, uninit, hist, arg, ret>>

\* Mutant: a run that is not over keeps the loop going past the last row.
Advance_run_first ==
  /\ i' = NextRow(width, i, j)
  /\ j' = NextCol(width, i, j)
  /\ pc' = IF NextRow(width, i, j) < height \/ run_length' # 0
           THEN "decode" ELSE "output"

\* The loop variables and pc after the iteration at (i, j).
Advance ==
  /\ i' = NextRow(width, i, j)
  /\ j' = NextCol(width, i, j)
  /\ pc' = IF NextRow(width, i, j) < height THEN "decode" ELSE "output"

\* Mutant: the repeated position gets the pixel a fresh res starts with.
InRun_default_pixel ==
  /\ pc = "decode"
  /\ run_length # 0
  /\ decoded' = Image_set(decoded, width, i, j, InitialPixel)
  /\ run_length' = run_length - 1
  /\ hist' = Append(hist, [op |-> "REPEAT", tag |-> -1, pix |-> InitialPixel,
                           row |-> i, col |-> j,
                           at |-> Image_index(width, i, j), off |-> pos,
                           len |-> 0, eof |-> FALSE])
  /\ Advance
  /\ UNCHANGED <<magic, width, height, stream, pos, fail, memory, last_pix,
                 out, last_starting_byte, last_second_byte, uninit, arg, ret>>

\* Mutant: the repeat skips a byte of the stream.
InRun_skips_byte ==
  /\ pc = "decode"
  /\ run_length # 0
  /\ decoded' = Image_set(decoded, width, i, j, last_pix)
  /\ run_length' = run_length - 1
  /\ pos' = Min(pos + 1, Len(stream))
  /\ hist' = Append(hist, [op |-> "REPEAT", tag |-> -1, pix |-> last_pix,
                           row |-> i, col |-> j,
                           at |-> Image_index(width, i, j), off |-> pos,
                           len |-> 0, eof |-> FALSE])
  /\ Advance
  /\ UNCHANGED <<magic, width, height, stream, fail, memory, last_pix,
                 out, last_starting_byte, last_second_byte, uninit, arg, ret>>

\* main.cpp:71-75: an iteration with run_length != 0.
InRun ==
  /\ pc = "decode"
  /\ run_length # 0
  /\ decoded' = Image_set(decoded, width, i, j, last_pix)
  /\ run_length' = run_length - 1
  /\ hist' = Append(hist, [op |-> "REPEAT", tag |-> -1, pix |-> last_pix,
                           row |-> i, col |-> j,
                           at |-> Image_index(width, i, j), off |-> pos,
                           len |-> 0, eof |-> FALSE])
  /\ Advance
  /\ UNCHANGED <<magic, width, height, stream, pos, fail, memory, last_pix,
                 out, last_starting_byte, last_second_byte, uninit, arg, ret>>

\* main.cpp:77-143: an iteration with run_length = 0. A read at end of file
\* stores nothing, so starting_byte and second_byte, which have no
\* initialiser, are then indeterminate.
Chunk ==
  /\ pc = "decode"
  /\ run_length = 0
  /\ LET t == ReadN(stream, pos, fail, 1) IN
     \E sb \in (IF Len(t.vals) = 1 THEN {t.vals[1]}
                ELSE Indeterminate) :
       LET op == TagOp(sb)
           o == ReadN(stream, t.pos, t.fail, OperandCount(op))
           lost == op = "LUMA" /\ Len(o.vals) = 0
       IN
       \E b2 \in (IF lost THEN Indeterminate
                  ELSE IF op = "LUMA" THEN {o.vals[1]} ELSE {last_second_byte}) :
         LET n == uninit + (IF Len(t.vals) = 1 THEN 0 ELSE 1)
                         + (IF lost THEN 1 ELSE 0)
             d == Dispatch(sb, o.vals, b2, last_pix, memory)
         IN
         /\ uninit' = n
         /\ last_starting_byte' = sb
         /\ last_second_byte' = b2
         /\ pos' = o.pos
         /\ fail' = o.fail
         /\ IF op = "UNKNOWN"
            THEN /\ pc' = "exit"
                 /\ UNCHANGED <<decoded, i, j, memory, last_pix, run_length, hist>>
            ELSE /\ memory' = d.memory
                 /\ run_length' = d.run_length
                 /\ decoded' = Image_set(decoded, width, i, j, d.res)
                 /\ last_pix' = d.res
                 /\ hist' = Append(hist, [op |-> op, tag |-> sb, pix |-> d.res,
                                          row |-> i, col |-> j,
                                          at |-> Image_index(width, i, j),
                                          off |-> pos, len |-> o.pos - pos,
                                          eof |-> o.fail])
                 /\ Advance
  /\ UNCHANGED <<magic, width, height, stream, out, arg, ret>>

\* The R, G and B bytes main writes for the pixel at (row, col).
PixelBytes(a, w, row, col) ==
  <<Image_get(a, w, row, col).r, Image_get(a, w, row, col).g,
    Image_get(a, w, row, col).b>>

\* main.cpp:180-190: the P6 header and the pixels, row by row.
PnmData(a, w, h) ==
  [k \in 1..(3 * w * h) |->
     PixelBytes(a, w, ((k - 1) \div 3) \div w, ((k - 1) \div 3) % w)[((k - 1) % 3) + 1]]

Output ==
  /\ pc = "output"
  /\ out' = <<"P6", width, height, 255>> \o PnmData(decoded, width, height)
  /\ pc' = "returned"
  /\ UNCHANGED <<magic, width, height, stream, pos, fail, decoded, i, j,
                 memory, last_pix, run_length, last_starting_byte,
                 last_second_byte, uninit, hist, arg, ret>>

\* What main has written to std::cerr (main.cpp:192).
ErrorOutput ==
  IF pc = "bad_magic" THEN <<"Bad qoi header (incorrect magic)!">> ELSE <<>>

\* The value main returns (main.cpp:193; 0 when it reaches its end).
ReturnValue == IF pc = "bad_magic" THEN -1 ELSE 0

Next == Main \/ InRun \/ Chunk \/ Output

Spec == Init /\ [][Next]_vars

----------------------------------------------------------------------------
(* The program run twice on the same file. Each run is a process of its    *)
(* own: nothing the first run held is there when the second starts.        *)

InitTwice ==
  /\ magic \in Magics
  /\ width \in 1..MaxWidthTwice
  /\ height = 1
  /\ stream \in {s \in TwiceStreams : Filled(s) >= width}
  /\ pos = 0
  /\ fail = FALSE
  /\ pc = "main"
  /\ decoded = <<>>
  /\ i = 0
  /\ j = 0
  /\ memory = <<>>
  /\ last_pix = Unset
  /\ run_length = 0
  /\ out = <<>>
  /\ last_starting_byte = -1
  /\ last_second_byte = -1
  /\ uninit = 0
  /\ hist = <<>>
  /\ Idle

\* The first run is over; ret keeps how it ended, the grid it decoded, what
\* it wrote and whether a read of it failed, and main is entered again with
\* the same file (main.cpp:153-175).
Rerun ==
  /\ pc \in {"returned", "bad_magic", "exit"}
  /\ ret = <<>>
  /\ ret' = <<[pc |-> pc, decoded |-> decoded, out |-> out, fail |-> fail]>>
  /\ pos' = 0
  /\ fail' = FALSE
  /\ pc' = "main"
  /\ decoded' = <<>>
  /\ i' = 0
  /\ j' = 0
  /\ memory' = <<>>
  /\ last_pix' = Unset
  /\ run_length' = 0
  /\ out' = <<>>
  /\ last_starting_byte' = -1
  /\ last_second_byte' = -1
  /\ uninit' = 0
  /\ hist' = <<>>
  /\ UNCHANGED <<magic, width, height, stream, arg>>

NextTwice == Main \/ InRun \/ Chunk \/ Output \/ Rerun

SpecTwice == InitTwice /\ [][NextTwice]_vars


----------------------------------------------------------------------------
(* Specifications of the single functions: Init draws the inputs, the one  *)
(* action applies the function. The decoder does not run in them.          *)

NoDecode ==
  /\ magic = "qoif" /\ width = 0 /\ height = 0 /\ stream = <<>> /\ pos = 0
  /\ fail = FALSE /\ pc = "idle" /\ decoded = <<>> /\ i = 0 /\ j = 0
  /\ memory = <<>> /\ last_pix = Unset /\ run_length = 0 /\ out = <<>>
  /\ last_starting_byte = -1 /\ last_second_byte = -1 /\ uninit = 0
  /\ hist = <<>>

\* Channel values around the ends of the range and around the hash modulus.
HashChannels == {0, 1, 2, 21, 63, 64, 85, 128, 254, 255}

\* A memory with every slot distinct from every pixel the functions yield.
UsedMemory == [k \in 0..63 |-> Pixel(k, 9, 9, 9)]

InitHash ==
  /\ NoDecode
  /\ arg \in [r : HashChannels, g : HashChannels, b : HashChannels, a : HashChannels]
  /\ ret = <<>>

ApplyHash ==
  /\ ret = <<>>
  /\ ret' = <<qoi_pix_hash(arg)>>
  /\ UNCHANGED <<decoderVars, arg>>

SpecHash == InitHash /\ [][ApplyHash]_vars

InitTag ==
  /\ NoDecode
  /\ arg \in 0..255
  /\ ret = <<>>

ApplyTag ==
  /\ ret = <<>>
  /\ ret' = <<TagOp(arg)>>
  /\ UNCHANGED <<decoderVars, arg>>

SpecTag == InitTag /\ [][ApplyTag]_vars

\* Previous pixels: every alpha, two colours.
RGBLast == {Pixel(c, c, c, a) : c \in {0, 200}, a \in 0..255}

RGBOperands == {0, 1, 128, 255}

InitRGB ==
  /\ NoDecode
  /\ arg \in [last : RGBLast, mem : {ZeroMemory, UsedMemory},
              r : RGBOperands, g : RGBOperands, b : RGBOperands]
  /\ ret = <<>>

ApplyRGB ==
  /\ ret = <<>>
  /\ ret' = <<QOI_OP_RGB(arg.last, arg.mem, arg.r, arg.g, arg.b)>>
  /\ UNCHANGED <<decoderVars, arg>>

SpecRGB == InitRGB /\ [][ApplyRGB]_vars

DiffChannels == {0, 1, 2, 100, 254, 255}

InitDiff ==
  /\ NoDecode
  /\ arg \in [last : {Pixel(r, g, b, a) : r \in DiffChannels, g \in DiffChannels,
                                         b \in DiffChannels, a \in {0, 255}},
              tag : 64..127]
  /\ ret = <<>>

ApplyDiff ==
  /\ ret = <<>>
  /\ ret' = <<QOI_OP_DIFF(arg.last, ZeroMemory, arg.tag)>>
  /\ UNCHANGED <<decoderVars, arg>>

SpecDiff == InitDiff /\ [][ApplyDiff]_vars

LumaLast == {Pixel(0, 0, 0, 255), Pixel(255, 255, 255, 0), Pixel(39, 31, 40, 7),
             Pixel(217, 224, 216, 128)}

InitLuma ==
  /\ NoDecode
  /\ arg \in [last : LumaLast, tag : 128..191, second : 0..255]
  /\ ret = <<>>

ApplyLuma ==
  /\ ret = <<>>
  /\ ret' = <<QOI_OP_LUMA(arg.last, ZeroMemory, arg.tag, arg.second)>>
  /\ UNCHANGED <<decoderVars, arg>>

SpecLuma == InitLuma /\ [][ApplyLuma]_vars

----------------------------------------------------------------------------
(* Image with the full width of uint32_t. A uint32_t is a pair <<hi, lo>>  *)
(* of 16-bit halves, its value hi * 2^16 + lo; products and sums are       *)
(* reduced modulo 2^32 as the unsigned arithmetic of main.cpp:39, 48, 52.  *)

\* (a * b) mod 2^16 and (a * b) div 2^16 of two 16-bit halves, by the bytes
\* of b.
MulLow16(a, b) ==
  ((((a * (b \div 256)) % 256) * 256) + a * (b % 256)) % 65536

MulHigh16(a, b) ==
  ((a * (b \div 256)) \div 256)
    + (((((a * (b \div 256)) % 256) * 256) + a * (b % 256)) \div 65536)

\* x * y as a uint32_t.
Mul32(x, y) ==
  <<(MulHigh16(x[2], y[2]) + MulLow16(x[1], y[2]) + MulLow16(x[2], y[1])) % 65536,
    MulLow16(x[2], y[2])>>

\* x + y as a uint32_t.
Add32(x, y) ==
  <<(x[1] + y[1] + ((x[2] + y[2]) \div 65536)) % 65536, (x[2] + y[2]) % 65536>>

\* x < y.
Less32(x, y) == x[1] < y[1] \/ (x[1] = y[1] /\ x[2] < y[2])

\* The number of elements of new Pixel[this->width * this->height].
Image_size32(w, h) == Mul32(w, h)

\* row * this->width + col of Image::get and Image::set.
Image_index32(w, row, col) == Add32(Mul32(row, w), col)

\* Header fields: 1, 2, 2^16 - 1, 2^16, 2^31 and 2^32 - 1.
Extents == {<<0, 1>>, <<0, 2>>, <<0, 65535>>, <<1, 0>>, <<32768, 0>>, <<65535, 65535>>}

\* Loop variables: 0, 1, 2^16 - 2, 2^16 - 1, 2^16 and 2^32 - 2.
Coordinates == {<<0, 0>>, <<0, 1>>, <<0, 65534>>, <<0, 65535>>, <<1, 0>>, <<65535, 65534>>}

\* A header and two grid positions of the loops of main.cpp:69-70 and
\* 183-184: row < height and col < width.
InitIndex ==
  /\ NoDecode
  /\ arg \in {a \in [width : Extents, height : Extents, row : Coordinates,
                     col : Coordinates, row2 : Coordinates, col2 : Coordinates] :
                /\ Less32(a.row, a.height) /\ Less32(a.col, a.width)
                /\ Less32(a.row2, a.height) /\ Less32(a.col2, a.width)}
  /\ ret = <<>>

ApplyIndex ==
  /\ ret = <<>>
  /\ ret' = <<[size |-> Image_size32(arg.width, arg.height),
               index |-> Image_index32(arg.width, arg.row, arg.col),
               index2 |-> Image_index32(arg.width, arg.row2, arg.col2)]>>
  /\ UNCHANGED <<decoderVars, arg>>

SpecIndex == InitIndex /\ [][ApplyIndex]_vars

----------------------------------------------------------------------------
(* Properties. *)

\* C9: qoi_pix_hash(p) is (3r + 5g + 7b + 11a) mod 64 over the full channel
\* values: it lies in 0..63, differs from the untruncated sum by a multiple
\* of 64, and is 0 for the pixel {0,0,0,0}.
C9_PixelHash ==
  ret # <<>> =>
    LET sum == 3 * arg.r + 5 * arg.g + 7 * arg.b + 11 * arg.a
    IN  /\ ret[1] \in 0..63
        /\ \E q \in 0..103 : sum = 64 * q + ret[1]
        /\ (arg = Pixel(0, 0, 0, 0) => ret[1] = 0)

\* A hash taken of a pixel whose weighted sum does not fit 8 bits.
C9_Witness ==
  /\ ret # <<>>
  /\ arg.a = 255
  /\ 3 * arg.r + 5 * arg.g + 7 * arg.b + 11 * arg.a > 255
  /\ ret[1] # 0

\* C10: every byte 0..255 is classified as exactly one operation, 0xFE as RGB
\* and 0xFF as RGBA before the two-bit prefixes, and never as unknown.
C10_TagPartition ==
  ret # <<>> =>
    /\ ret[1] # "UNKNOWN"
    /\ ret[1] = (CASE arg = 254 -> "RGB"
                   [] arg = 255 -> "RGBA"
                   [] arg \in 0..63 -> "INDEX"
                   [] arg \in 64..127 -> "DIFF"
                   [] arg \in 128..191 -> "LUMA"
                   [] arg \in 192..253 -> "RUN")

\* The sentinel 0xFE, whose top bits are 11, classified as RGB.
C10_Witness == ret = <<"RGB">> /\ arg = 254

\* C5: QOI_OP_RGB yields {r, g, b, last_pix.a}, and records that pixel, with
\* the carried alpha, in the slot of its hash, leaving the other slots alone.
C5_RGBAlphaCarry ==
  ret # <<>> =>
    LET p == Pixel(arg.r, arg.g, arg.b, arg.last.a)
        h == (3 * arg.r + 5 * arg.g + 7 * arg.b + 11 * arg.last.a) % 64
    IN  /\ ret[1].res = p
        /\ ret[1].memory[h] = p
        /\ \A k \in (0..63) \ {h} : ret[1].memory[k] = arg.mem[k]

\* An RGB chunk after a pixel whose alpha is neither 0 nor 255.
C5_Witness ==
  /\ ret # <<>>
  /\ arg.last.a = 77
  /\ ret[1].res = Pixel(arg.r, arg.g, arg.b, 77)
  /\ arg.r = 128

\* C6: QOI_OP_DIFF with stored fields sr, sg, sb yields
\* {(r + sr - 2) mod 256, (g + sg - 2) mod 256, (b + sb - 2) mod 256, a} of
\* last_pix; stored 0 on a channel of 1 gives 255.
C6_DiffWraparound ==
  ret # <<>> =>
    /\ \E sr \in 0..3, sg \in 0..3, sb \in 0..3 :
         /\ arg.tag = 64 + 16 * sr + 4 * sg + sb
         /\ ret[1].res = Pixel((arg.last.r + sr - 2) % 256,
                               (arg.last.g + sg - 2) % 256,
                               (arg.last.b + sb - 2) % 256,
                               arg.last.a)
    /\ (arg.last.r = 1 /\ arg.tag \in 64..79 => ret[1].res.r = 255)

\* Stored 0 applied to a red channel of 1.
C6_Witness ==
  /\ ret # <<>>
  /\ arg.last.r = 1
  /\ arg.tag = 64
  /\ ret[1].res.r = 255

\* C7: QOI_OP_LUMA with green field sg and nibbles hr, hb yields
\* g = (g + sg - 32) mod 256, r = (r + (hr - 8) + (sg - 32)) mod 256,
\* b = (b + (hb - 8) + (sg - 32)) mod 256 and the alpha of last_pix.
C7_LumaReconstruction ==
  ret # <<>> =>
    \E sg \in 0..63 :
      /\ arg.tag = 128 + sg
      /\ \E hr \in 0..15 :
           \E hb \in 0..15 :
             /\ arg.second = 16 * hr + hb
             /\ ret[1].res = Pixel((arg.last.r + (hr - 8) + (sg - 32)) % 256,
                                   (arg.last.g + sg - 32) % 256,
                                   (arg.last.b + (hb - 8) + (sg - 32)) % 256,
                                   arg.last.a)

\* Negative differences that wrap all three channels below 0.
C7_Witness ==
  /\ ret # <<>>
  /\ arg.last = Pixel(0, 0, 0, 255)
  /\ arg.tag = 128
  /\ arg.second = 15
  /\ ret[1].res = Pixel(216, 224, 231, 255)

\* The decoder has been entered: its locals and the image exist.
Decoding == pc \in {"decode", "output", "returned", "exit"}

\* C1 (as the specification states it): once a read has hit the end of the
\* stream the decode is aborted in an error state: no chunk whose bytes were
\* missing has written a pixel, and no image is emitted.
C1_TruncationIsHardError ==
  fail =>
    /\ pc = "exit"
    /\ \A n \in DOMAIN hist : ~hist[n].eof
    /\ out = <<>>

\* The pixel last_pix held when the n-th grid write began.
PixelBefore(n) == IF n = 1 THEN Pixel(0, 0, 0, 255) ELSE hist[n - 1].pix

\* C2: a RUN tag with field v writes the unchanged last_pix to the v + 1
\* consecutive row-major positions that start at its own (as many of them as
\* the grid still has), reads nothing after its tag while it does, and the
\* write after those is made by a chunk whose tag is read right after the
\* RUN tag; the run in progress is what run_length counts.
C2_RunSemantics ==
  \A n \in DOMAIN hist :
    hist[n].op = "RUN" =>
      LET v == hist[n].tag - 192
          after == hist[n].off + hist[n].len
      IN  /\ v \in 0..61
          /\ hist[n].len = (IF hist[n].eof THEN 0 ELSE 1)
          /\ \A k \in n..(n + v) :
               k <= Len(hist) =>
                 /\ hist[k].pix = PixelBefore(n)
                 /\ hist[k].at = hist[n].at + (k - n)
                 /\ decoded[hist[k].at + 1] = PixelBefore(n)
                 /\ (k > n => hist[k].op = "REPEAT" /\ hist[k].off = after)
          /\ (n + v + 1 <= Len(hist) =>
                /\ hist[n + v + 1].op # "REPEAT"
                /\ hist[n + v + 1].off = after)
          /\ (Len(hist) <= n + v =>
                /\ pos = after
                /\ (pc = "decode" => run_length = n + v - Len(hist)))

\* A RUN tag with field 61 read from the stream, its 62 pixels written across
\* several rows, and the next tag read from the stream for the 63rd.
C2_Witness ==
  \E n \in DOMAIN hist :
    /\ hist[n].op = "RUN" /\ hist[n].tag = 253 /\ ~hist[n].eof
    /\ n + 62 <= Len(hist)
    /\ hist[n + 61].op = "REPEAT"
    /\ hist[n + 62].op \notin {"REPEAT", "RUN"} /\ hist[n + 62].len >= 1
    /\ hist[n + 61].at >= 3 * width

\* The chunks that record their pixel.
Recording == {"RGB", "RGBA", "DIFF", "LUMA"}

\* The grid writes made by a recording chunk.
Recorded == {n \in DOMAIN hist : hist[n].op \in Recording}

\* Those whose pixel hashes to slot k.
RecordedIn(k) == {n \in Recorded : qoi_pix_hash(hist[n].pix) = k}

\* C3: every slot k holds {0,0,0,0} if no RGB, RGBA, DIFF or LUMA chunk has
\* produced a pixel that hashes to k, and otherwise the pixel of the most
\* recent such chunk.
C3_HistoryTable ==
  Decoding =>
    LET slot == [n \in DOMAIN hist |->
                   IF hist[n].op \in Recording THEN qoi_pix_hash(hist[n].pix) ELSE -1]
        used == {slot[n] : n \in DOMAIN hist}
    IN  /\ \A k \in (0..63) \ used : memory[k] = Pixel(0, 0, 0, 0)
        /\ \A n \in DOMAIN hist :
             (slot[n] # -1 /\ \A m \in (n + 1)..Len(hist) : slot[m] # slot[n])
               => memory[slot[n]] = hist[n].pix

\* Two recording chunks collided in slot 0, and the later one is what is left.
C3_Witness ==
  /\ Decoding
  /\ Cardinality(RecordedIn(0)) = 2
  /\ \E n \in RecordedIn(0) : hist[n].pix # memory[0]
  /\ memory[0] # Pixel(0, 0, 0, 0)

\* C4: before the first grid write last_pix is {0,0,0,255} and run_length 0;
\* after it last_pix is the pixel most recently written to the grid.
C4_LastPix ==
  pc \in {"decode", "output", "returned"} =>
    LET written == i * width + j
    IN  IF written = 0
        THEN last_pix = Pixel(0, 0, 0, 255) /\ run_length = 0
        ELSE /\ decoded[written] # Unset
             /\ last_pix = decoded[written]

\* The last write was a repeat of a run, of a pixel other than {0,0,0,255}.
C4_Witness ==
  /\ pc = "decode"
  /\ hist # <<>>
  /\ hist[Len(hist)].op = "REPEAT"
  /\ last_pix # Pixel(0, 0, 0, 255)
  /\ last_pix = decoded[i * width + j]

\* C8: a step that writes the grid by INDEX, by RUN or by a repeat of a run
\* leaves all 64 slots as they were, and INDEX writes the pixel of slot k.
C8_IndexRunReadOnly ==
  [][(Len(hist') = Len(hist) + 1
        /\ hist'[Len(hist')].op \in {"INDEX", "RUN", "REPEAT"})
       => /\ memory' = memory
          /\ (hist'[Len(hist')].op = "INDEX" =>
                hist'[Len(hist')].pix = memory[hist'[Len(hist')].tag % 64])]_vars

\* An INDEX chunk that fetched the pixel a chunk had recorded in its slot.
C8_Witness ==
  /\ Decoding
  /\ \E n \in DOMAIN hist :
       /\ hist[n].op = "INDEX"
       /\ ~hist[n].eof
       /\ hist[n].pix # Pixel(0, 0, 0, 0)
       /\ hist[n].pix = memory[hist[n].tag % 64]
       /\ n > 1
       /\ hist[n - 1].op \in Recording

\* C11: the k-th grid write (k = 0, 1, ...) targets row k div width and
\* column k mod width; the positions before the next write are written, the
\* others are not yet, and when the decode is over every position has been
\* written exactly once.
C11_RowMajorOrder ==
  pc \in {"decode", "output", "returned"} =>
    /\ \A n \in DOMAIN hist :
         /\ hist[n].row = (n - 1) \div width
         /\ hist[n].col = (n - 1) % width
         /\ hist[n].row < height
         /\ hist[n].at = n - 1
    /\ \A k \in DOMAIN decoded : (decoded[k] # Unset) <=> (k <= Len(hist))
    /\ (pc = "decode" => /\ i = Len(hist) \div width
                         /\ j = Len(hist) % width
                         /\ Len(hist) < width * height)
    /\ (pc # "decode" => Len(hist) = width * height)

\* A decode that is over, of a grid of several rows and several columns.
C11_Witness ==
  /\ pc = "output"
  /\ width > 1
  /\ height > 1
  /\ Len(hist) = width * height
  /\ hist[width].row = 0 /\ hist[width].col = width - 1
  /\ hist[width + 1].row = 1 /\ hist[width + 1].col = 0
  /\ hist[Len(hist)].row = height - 1 /\ hist[Len(hist)].col = width - 1

\* The decode is over: do_decode_image has returned.
Decoded == pc \in {"output", "returned"}

\* Never more than width*height grid writes and never one outside the
\* buffer; when the decode is over there were exactly width*height, every
\* position is written, and nothing was read after the last write.
C12_Populated ==
  pc \in {"decode", "output", "returned"} =>
    /\ Len(hist) <= width * height
    /\ Len(decoded) = width * height
    /\ \A n \in DOMAIN hist : hist[n].at < width * height
    /\ (Decoded =>
          /\ Len(hist) = width * height
          /\ \A k \in DOMAIN decoded : decoded[k] # Unset
          /\ pos = hist[Len(hist)].off + hist[Len(hist)].len
          /\ i = height)

\* The stream holds the starting byte and the operands of the chunk that
\* the iteration at hand reads, if it reads one.
Supplied ==
  \/ run_length # 0
  \/ /\ ~fail
     /\ pos < Len(stream)
     /\ pos + 1 + OperandCount(TagOp(stream[pos + 1])) <= Len(stream)

\* C12: a decode whose stream supplies every byte its chunks read ends, after
\* exactly width*height grid writes, with every position written: while the
\* bytes are supplied the next iteration can always be taken, every
\* iteration makes one grid write, and there are never more than
\* width*height of them; a run longer than the positions left ends at the
\* last position, and no tag is read after it.
C12_Termination ==
  /\ []C12_Populated
  /\ []((pc \in {"main", "output"} \/ (pc = "decode" /\ Supplied)) => ENABLED Next)
  /\ [][pc = "decode" =>
          /\ Len(hist') = Len(hist) + 1
          /\ pc' \in {"decode", "output"}
          /\ (pc' = "output" <=> Len(hist') = width * height)]_vars

\* A decode that is over without a failed read, its last run cut off by
\* the end of a grid of several rows, with repeats left over.
C12_Witness ==
  /\ pc = "returned"
  /\ ~fail
  /\ width > 1
  /\ height > 1
  /\ run_length > 0
  /\ hist[Len(hist)].op = "REPEAT"

\* A run is over.
Ended == pc \in {"returned", "bad_magic", "exit"}

\* C13: a second run on the same width, height and stream starts from 64
\* zero slots, last_pix {0,0,0,255} and run_length 0, and ends as the first
\* did, with the same grid and the same output, whatever the length of the
\* stream.
C13_Deterministic ==
  ret # <<>> =>
    /\ (pc = "decode" /\ hist = <<>> =>
          /\ memory = [k \in 0..63 |-> Pixel(0, 0, 0, 0)]
          /\ last_pix = Pixel(0, 0, 0, 255)
          /\ run_length = 0)
    /\ (Ended =>
          /\ pc = ret[1].pc
          /\ decoded = ret[1].decoded
          /\ out = ret[1].out)

\* The same, of the runs in which no read failed.
C13_DeterministicWhenSupplied ==
  ret # <<>> /\ ~ret[1].fail /\ ~fail => C13_Deterministic

\* Two runs on the same complete stream that decoded a whole grid.
C13_SuppliedTwice ==
  /\ ret # <<>>
  /\ pc = "returned"
  /\ ~ret[1].fail /\ ~fail
  /\ width > 1
  /\ decoded = ret[1].decoded
  /\ out = ret[1].out
  /\ hist[1].op = "RUN"
  /\ hist[2].op = "REPEAT"

\* C14: an iteration entered with run_length > 0 writes last_pix to the
\* position (i, j) and to no other, decrements run_length by exactly 1, and
\* leaves the stream offset, the failbit, last_pix and the 64 slots as they
\* were.
C14_InRunFrame ==
  [][pc = "decode" /\ run_length > 0 =>
       /\ decoded' = [decoded EXCEPT ![i * width + j + 1] = last_pix]
       /\ run_length' = run_length - 1
       /\ pos' = pos
       /\ fail' = fail
       /\ last_pix' = last_pix
       /\ memory' = memory]_vars

\* Two repeats of a run made and more to come, with bytes left in the
\* stream after the RUN tag and nothing read since it.
C14_Witness ==
  /\ pc = "decode"
  /\ run_length > 0
  /\ Len(hist) >= 3
  /\ hist[Len(hist)].op = "REPEAT"
  /\ hist[Len(hist) - 1].op = "REPEAT"
  /\ hist[Len(hist) - 2].op = "RUN"
  /\ pos = hist[Len(hist) - 2].off + 1
  /\ pos < Len(stream)
  /\ decoded[Len(hist)] = last_pix
  /\ decoded[Len(hist) + 1] = Unset

\* The last grid write was made by an INDEX chunk.
AfterIndex == Decoding /\ hist # <<>> /\ hist[Len(hist)].op = "INDEX"

\* C15: after an INDEX chunk with any index k the pixel res it produced
\* satisfies memory[qoi_pix_hash(res)] = res, so recording it would leave the
\* 64 slots unchanged.
C15_IndexAlreadyRecorded ==
  AfterIndex =>
    LET res == hist[Len(hist)].pix
    IN  /\ memory[qoi_pix_hash(res)] = res
        /\ Record(memory, res) = memory

\* The same, of an INDEX chunk whose slot a chunk has recorded, or that
\* finds slot 0 still {0,0,0,0}.
C15_IndexOfRecordedSlot ==
  AfterIndex /\ (RecordedIn(hist[Len(hist)].tag % 64) # {}
                   \/ memory[0] = Pixel(0, 0, 0, 0)) =>
    memory[qoi_pix_hash(hist[Len(hist)].pix)] = hist[Len(hist)].pix

\* An INDEX chunk that fetched the pixel a chunk had recorded in its slot.
C15_IndexHit ==
  /\ AfterIndex
  /\ RecordedIn(hist[Len(hist)].tag % 64) # {}
  /\ hist[Len(hist)].pix # Pixel(0, 0, 0, 0)

\* C16: an iteration with run_length = 0 reads its tag at the offset where
\* the chunk before it ended (0 for the first) and consumes 4 bytes for RGB,
\* 5 for RGBA, 2 for LUMA and 1 for INDEX, DIFF and RUN, a repeat of a run
\* consumes none, and the stream offset is the sum of these sizes. A chunk
\* that met the end of the stream consumed the bytes that were left.
C16_ByteConsumption ==
  Decoding =>
    /\ \A n \in DOMAIN hist :
         LET h == hist[n]
             size == CASE h.op = "RGB" -> 4
                       [] h.op = "RGBA" -> 5
                       [] h.op = "LUMA" -> 2
                       [] h.op \in {"INDEX", "DIFF", "RUN"} -> 1
                       [] h.op = "REPEAT" -> 0
         IN  /\ h.off = (IF n = 1 THEN 0 ELSE hist[n - 1].off + hist[n - 1].len)
             /\ (~h.eof => h.len = size)
             /\ (h.eof => h.len < size /\ h.off + h.len = Len(stream))
             /\ (h.len > 0 => h.tag = stream[h.off + 1])
    /\ pos = (IF hist = <<>> THEN 0 ELSE hist[Len(hist)].off + hist[Len(hist)].len)
    /\ (~fail => \A n \in DOMAIN hist : ~hist[n].eof)

\* A LUMA chunk of 2 bytes followed by an RGBA chunk of 5, all of them read.
C16_Witness ==
  /\ Decoding
  /\ ~fail
  /\ Len(hist) >= 2
  /\ hist[1].op = "LUMA"
  /\ hist[2].op = "RGBA"
  /\ hist[2].off = 2
  /\ pos = 7

\* C17: at the top of every iteration run_length is in 0..61; it leaves 0
\* only in the iteration of a RUN tag 0xC1..0xFD, which sets it to the tag's
\* field (1..61); otherwise it changes only by a decrement of 1 from a value
\* above 0, so it never wraps below 0.
C17_RunCounterBound ==
  /\ [](Decoding => run_length \in 0..61)
  /\ [][run_length' # run_length =>
          IF run_length = 0
          THEN /\ pc = "decode"
               /\ Len(hist') = Len(hist) + 1
               /\ hist'[Len(hist')].op = "RUN"
               /\ hist'[Len(hist')].tag \in 193..253
               /\ run_length' = hist'[Len(hist')].tag % 64
               /\ run_length' \in 1..61
          ELSE /\ run_length > 0
               /\ run_length' = run_length - 1]_vars

\* The tag 0xFD, read from the stream, has just set run_length to 61.
C17_Witness ==
  /\ pc = "decode"
  /\ hist # <<>>
  /\ hist[Len(hist)].op = "RUN"
  /\ hist[Len(hist)].tag = 253
  /\ ~hist[Len(hist)].eof
  /\ run_length = 61

\* C18: for every 32-bit width and height, the index row * width + col of
\* every position with row < height and col < width, computed as a
\* uint32_t, is less than the width * height elements allocated, computed as
\* a uint32_t, and two distinct positions have distinct indices.
C18_GridWritesInBounds ==
  ret # <<>> =>
    /\ Less32(ret[1].index, ret[1].size)
    /\ Less32(ret[1].index2, ret[1].size)
    /\ (<<arg.row, arg.col>> # <<arg.row2, arg.col2>> => ret[1].index # ret[1].index2)

\* width * height is less than 2^32.
NoWrap(w, h) ==
  /\ MulHigh16(w[1], h[1]) = 0 /\ MulLow16(w[1], h[1]) = 0
  /\ MulHigh16(w[1], h[2]) = 0
  /\ MulHigh16(w[2], h[1]) = 0
  /\ MulHigh16(w[2], h[2]) + MulLow16(w[1], h[2]) + MulLow16(w[2], h[1]) < 65536

\* The same, of the headers whose width * height does not wrap.
C18_InBoundsWithoutWrap ==
  ret # <<>> /\ NoWrap(arg.width, arg.height) => C18_GridWritesInBounds

\* The last position and another of a grid of 2^16 - 1 by 2^16 - 1.
C18_LargestGrid ==
  /\ ret # <<>>
  /\ arg.width = <<0, 65535>> /\ arg.height = <<0, 65535>>
  /\ arg.row = <<0, 65534>> /\ arg.col = <<0, 65534>>
  /\ arg.row2 = <<0, 1>> /\ arg.col2 = <<0, 0>>
  /\ ret[1].size = <<65534, 1>>
  /\ ret[1].index = <<65534, 0>>
  /\ ret[1].index2 = <<0, 65535>>

\* C19: when the magic is not "qoif", main writes the error message and
\* returns a non-zero value without allocating the image, without entering
\* do_decode_image (no local initialised, no byte of the stream read, no
\* grid write) and without writing output; with the magic "qoif" it never
\* takes that branch; and output exists only once do_decode_image has
\* returned with the whole grid written.
C19_BadMagicRejected ==
  /\ (magic # "qoif" =>
        /\ pc \in {"main", "bad_magic"}
        /\ decoded = <<>>
        /\ memory = <<>>
        /\ last_pix = Unset
        /\ hist = <<>>
        /\ pos = 0
        /\ out = <<>>)
  /\ (pc = "bad_magic" =>
        /\ magic # "qoif"
        /\ ErrorOutput # <<>>
        /\ ReturnValue # 0
        /\ ~ENABLED Next)
  /\ (magic = "qoif" => pc # "bad_magic" /\ ErrorOutput = <<>>)
  /\ (out # <<>> =>
        /\ magic = "qoif"
        /\ pc = "returned"
        /\ Len(hist) = width * height
        /\ ReturnValue = 0)
  /\ (pc \in {"main", "decode", "output", "exit"} => out = <<>>)

\* A file with a wrong magic and chunk bytes after the header, rejected.
C19_Witness ==
  /\ pc = "bad_magic"
  /\ magic = "qoig"
  /\ Len(stream) >= 5
  /\ decoded = <<>>
  /\ out = <<>>

====
